---- MODULE Spec2Model ----
(***************************************************************************)
(* Suspendable keyed promise cache, blocking read (use), Suspense and      *)
(* ErrorBoundary, as used by the two runnable samples:                     *)
(*   Spec        the dashboard of code-samples/advanced/15-suspense-demo   *)
(*   SpecUseApi  the two demo boxes of code-samples/advanced/11-use-api    *)
(* A handler and the render pass it schedules are one step: the event loop *)
(* runs no timer and no click between a setState and its render.           *)
(***************************************************************************)
EXTENDS Integers, Sequences, FiniteSets, TLC

\* Bounds of the exploration.
MaxFetch == 7
MaxReset == 3
MaxProduce == 4
MaxThrow == 1
MaxAttempts == 4

VARIABLES
    cache,        \* Map: key -> id of the cached promise, NoEntry when absent
    promises,     \* every promise a producer has returned, by id (1..Len)
    fetchCount,   \* key -> number of producer invocations so far
    hasError,     \* component -> state.hasError of its ErrorBoundary
    error,        \* component -> state.error of its ErrorBoundary
    suspendedOn,  \* component -> promise its Suspense waits on, 0 when none
    view,         \* component -> what its part of the page displays
    mountedAt,    \* component -> React key its subtree was mounted under
    resetKey,     \* useState counter: resetKey (dashboard), key (use-api)
    userId,       \* use-api: selected user (0 in the dashboard)
    shouldFetch,  \* use-api: toggle of the second demo box
    rootError,    \* object that escaped every boundary, Null when none
    reads,        \* component -> the read it made in the last step
    lastOp        \* the handler or continuation that made the last step

vars == <<cache, promises, fetchCount, hasError, error, suspendedOn, view,
          mountedAt, resetKey, userId, shouldFetch, rootError, reads, lastOp>>

----------------------------------------------------------------------------
\* Objects. An object is identified by its type and by the producer
\* invocation that created it.
NoEntry == 0
Null == [type |-> "null", id |-> 0]
PromiseObj(p) == [type |-> "Promise", id |-> p]
ErrorObj(p) == [type |-> "Error", id |-> p]
DataObj(p) == [type |-> "Data", id |-> p]

NoRead == [outcome |-> "none", promise |-> 0, obj |-> Null, caughtBy |-> "none"]
Blank == [kind |-> "unmounted", obj |-> Null]
Op(name, p, c, outcome) == [op |-> name, p |-> p, c |-> c, outcome |-> outcome]

\* The state a handler works on, threaded through its statements.
St == [cache |-> cache, promises |-> promises, fetchCount |-> fetchCount,
       hasError |-> hasError, error |-> error, suspendedOn |-> suspendedOn,
       view |-> view, mountedAt |-> mountedAt, resetKey |-> resetKey,
       userId |-> userId, shouldFetch |-> shouldFetch,
       rootError |-> rootError,
       reads |-> [c \in DOMAIN reads |-> NoRead]]

----------------------------------------------------------------------------
\* Producers and the cache.

\* api.fetchStats / fetchTasks / fetchActivities, fetchUser: an async
\* function returns a new pending promise; it settles after its timer.
fetcher(st, key) ==
    [st EXCEPT !.promises = Append(@, [id |-> Len(@) + 1, key |-> key,
                                       status |-> "pending",
                                       value |-> Null, reason |-> Null]),
               !.fetchCount[key] = @ + 1]

getCachedPromise_NoCache(st, key) ==
    LET s1 == fetcher(st, key)
    IN  [s1 EXCEPT !.cache[key] = Len(s1.promises)]

getCachedPromise_SettledOnly(st, key) ==
    IF st.cache[key] = NoEntry \/ st.promises[st.cache[key]].status = "pending"
    THEN LET s1 == fetcher(st, key)
         IN  [s1 EXCEPT !.cache[key] = Len(s1.promises)]
    ELSE st

\* if (!cache.has(key)) cache.set(key, fetcher()); return cache.get(key)
\* The promise returned is cache[key] of the result.
getCachedPromise(st, key) ==
    IF st.cache[key] = NoEntry
    THEN LET s1 == fetcher(st, key)
         IN  [s1 EXCEPT !.cache[key] = Len(s1.promises)]
    ELSE st

CacheDelete_All(c, key) == [k \in DOMAIN c |-> NoEntry]

\* Map.delete(key)
CacheDelete(c, key) == [c EXCEPT ![key] = NoEntry]

\* Map.clear()
CacheClear(c) == [k \in DOMAIN c |-> NoEntry]

----------------------------------------------------------------------------
\* The blocking read.

use_ReturnPending(promise) ==
    IF promise.status = "rejected"
    THEN [outcome |-> "throw", obj |-> promise.reason]
    ELSE [outcome |-> "return", obj |-> promise.value]

\* use(promise): value of a fulfilled promise, throw the reason of a
\* rejected one, throw the promise itself while it is pending.
use(promise) ==
    IF promise.status = "fulfilled"
    THEN [outcome |-> "return", obj |-> promise.value]
    ELSE IF promise.status = "rejected"
    THEN [outcome |-> "throw", obj |-> promise.reason]
    ELSE [outcome |-> "throw", obj |-> PromiseObj(promise.id)]

----------------------------------------------------------------------------
\* Boundaries.

SuspenseCatches_Anything(thrown) == TRUE

\* catch (promise) { if (promise instanceof Promise) ... else throw promise }
SuspenseCatches(thrown) == thrown.type = "Promise"

ErrorBoundaryCatches_Anything(thrown) == TRUE

\* getDerivedStateFromError(error: Error): the host hands a boundary the
\* errors thrown below it; a thrown promise is a suspension, not an error.
ErrorBoundaryCatches(thrown) == thrown.type = "Error"

\* Suspense shows its fallback and waits for the promise it caught.
SuspenseFallback(st, c, thrown) ==
    [st EXCEPT !.suspendedOn[c] = thrown.id,
               !.view[c] = [kind |-> "placeholder", obj |-> Null],
               !.reads[c].caughtBy = "Suspense"]

getDerivedStateFromError_Shared(st, c, thrown) ==
    [st EXCEPT !.hasError = [d \in DOMAIN @ |-> TRUE],
               !.error = [d \in DOMAIN @ |-> thrown],
               !.suspendedOn[c] = 0,
               !.view = [d \in DOMAIN @ |-> [kind |-> "fallback", obj |-> thrown]],
               !.reads[c].caughtBy = "ErrorBoundary"]

getDerivedStateFromError_FlagOnly(st, c, thrown) ==
    [st EXCEPT !.hasError[c] = TRUE,
               !.suspendedOn[c] = 0,
               !.view[c] = [kind |-> "fallback", obj |-> st.error[c]],
               !.reads[c].caughtBy = "ErrorBoundary"]

\* static getDerivedStateFromError(error) { return { hasError: true, error } }
\* followed by render(): fallback(this.state.error, this.reset)
getDerivedStateFromError(st, c, thrown) ==
    [st EXCEPT !.hasError[c] = TRUE,
               !.error[c] = thrown,
               !.suspendedOn[c] = 0,
               !.view[c] = [kind |-> "fallback", obj |-> thrown],
               !.reads[c].caughtBy = "ErrorBoundary"]

\* No boundary took the object: it leaves the root and the host unmounts
\* the whole tree.
Uncaught(st, c, thrown) ==
    [st EXCEPT !.rootError = thrown,
               !.reads[c].caughtBy = "root"]

\* The host's control transfer: the thrown object visits the enclosing
\* boundaries, nearest first.
RECURSIVE Throw(_, _, _, _)
Throw(st, c, thrown, path) ==
    IF path = <<>> THEN Uncaught(st, c, thrown)
    ELSE IF Head(path) = "Suspense"
    THEN IF SuspenseCatches(thrown)
         THEN SuspenseFallback(st, c, thrown)
         ELSE Throw(st, c, thrown, Tail(path))
    ELSE IF ErrorBoundaryCatches(thrown)
         THEN getDerivedStateFromError(st, c, thrown)
         ELSE Throw(st, c, thrown, Tail(path))

\* constructor: this.state = { hasError: false, error: null }
ErrorBoundaryConstructor(st, c) ==
    [st EXCEPT !.hasError[c] = FALSE, !.error[c] = Null]

----------------------------------------------------------------------------
\* Components.

\* QuickStats / TaskList / ActivityFeed / UserProfile:
\* const data = use(getCachedPromise(key, fetcher)); return <view of data>
Component(st, c, key, path) ==
    LET s1 == getCachedPromise(st, key)
        p == s1.cache[key]
        r == use(s1.promises[p])
        s2 == [s1 EXCEPT !.reads[c] = [outcome |-> r.outcome, promise |-> p,
                                       obj |-> r.obj, caughtBy |-> "none"]]
    IN  IF r.outcome = "return"
        THEN [s2 EXCEPT !.view[c] = [kind |-> "value", obj |-> r.obj],
                        !.suspendedOn[c] = 0]
        ELSE Throw(s2, c, r.obj, path)

\* ErrorBoundary.render(): the fallback while hasError && error, the
\* children otherwise.
ErrorBoundaryRender(st, c, key, path) ==
    IF st.hasError[c] /\ st.error[c] # Null
    THEN [st EXCEPT !.view[c] = [kind |-> "fallback", obj |-> st.error[c]]]
    ELSE Component(st, c, key, path)

\* A subtree mounted under a new React key: new boundary instances, then
\* the first render of the children.
Mount(st, c, key, path, reactKey) ==
    LET s1 == ErrorBoundaryConstructor(st, c)
        s2 == [s1 EXCEPT !.suspendedOn[c] = 0, !.mountedAt[c] = reactKey]
    IN  Component(s2, c, key, path)

----------------------------------------------------------------------------
\* The dashboard (15-suspense-demo).

Sections == {"stats", "tasks", "activities"}
SectionOrder == <<"stats", "tasks", "activities">>

\* <ErrorBoundary><Suspense><Section/></Suspense></ErrorBoundary>
SectionPath == <<"Suspense", "ErrorBoundary">>

\* <main key={resetKey}>: a changed key remounts every section, the same
\* key re-renders them.
RECURSIVE RenderMain(_, _)
RenderMain(st, order) ==
    IF order = <<>> THEN st
    ELSE LET c == Head(order)
             s1 == IF st.mountedAt[c] # st.resetKey
                   THEN Mount(st, c, c, SectionPath, st.resetKey)
                   ELSE ErrorBoundaryRender(st, c, c, SectionPath)
         IN  RenderMain(s1, Tail(order))

handleSectionReset_NoBump(st, section) ==
    [st EXCEPT !.cache = CacheDelete(@, section)]

handleSectionReset_NoDelete(st, section) ==
    [st EXCEPT !.resetKey = @ + 1]

\* cache.delete(section); setResetKey(k => k + 1)
handleSectionReset(st, section) ==
    [st EXCEPT !.cache = CacheDelete(@, section),
               !.resetKey = @ + 1]

\* cache.clear(); setResetKey(k => k + 1)
handleGlobalReset(st) ==
    [st EXCEPT !.cache = CacheClear(@),
               !.resetKey = @ + 1]

\* reset = () => { this.setState({ hasError: false, error: null });
\*                 this.props.onReset?.() }
ErrorBoundaryReset(st, c) ==
    handleSectionReset([st EXCEPT !.hasError[c] = FALSE, !.error[c] = Null], c)

Wake_Skip(st, p, order) == st

Wake_WhenAllSettled(st, p, order) ==
    IF \E k \in DOMAIN st.cache :
          st.cache[k] # NoEntry /\ st.promises[st.cache[k]].status = "pending"
    THEN st
    ELSE RenderMain(st, order)

\* The continuation the host attached when a Suspense caught the promise:
\* every Suspense still waiting on it re-renders its children.  The
\* samples run on the host's Suspense, which does so on fulfilment and on
\* rejection (README: resolve -> render, reject -> ErrorBoundary); the
\* book's explanatory sketch of Suspense attaches promise.then(onFulfilled)
\* only and is not what the samples execute.
RECURSIVE Wake(_, _, _)
Wake(st, p, order) ==
    IF order = <<>> THEN st
    ELSE LET c == Head(order)
             s1 == IF st.suspendedOn[c] = p
                   THEN ErrorBoundaryRender(st, c, c, SectionPath)
                   ELSE st
         IN  Wake(s1, p, Tail(order))

\* The promise's own transition; the objects are created by the producer.
SettlePromise(st, p, outcome) ==
    [st EXCEPT !.promises[p] =
        IF outcome = "fulfilled"
        THEN [@ EXCEPT !.status = "fulfilled", !.value = DataObj(p)]
        ELSE [@ EXCEPT !.status = "rejected", !.reason = ErrorObj(p)]]

\* The end of a step: the host unmounts everything when an object left
\* the root.
Commit(st, op) ==
    /\ cache' = st.cache
    /\ promises' = st.promises
    /\ fetchCount' = st.fetchCount
    /\ resetKey' = st.resetKey
    /\ userId' = st.userId
    /\ shouldFetch' = st.shouldFetch
    /\ rootError' = st.rootError
    /\ reads' = st.reads
    /\ mountedAt' = st.mountedAt
    /\ IF st.rootError # Null
       THEN /\ hasError' = [c \in DOMAIN hasError |-> FALSE]
            /\ error' = [c \in DOMAIN error |-> Null]
            /\ suspendedOn' = [c \in DOMAIN suspendedOn |-> 0]
            /\ view' = [c \in DOMAIN view |-> Blank]
       ELSE /\ hasError' = st.hasError
            /\ error' = st.error
            /\ suspendedOn' = st.suspendedOn
            /\ view' = st.view
    /\ lastOp' = op

InitSt ==
    RenderMain([cache |-> [k \in Sections |-> NoEntry],
                promises |-> <<>>,
                fetchCount |-> [k \in Sections |-> 0],
                hasError |-> [c \in Sections |-> FALSE],
                error |-> [c \in Sections |-> Null],
                suspendedOn |-> [c \in Sections |-> 0],
                view |-> [c \in Sections |-> Blank],
                mountedAt |-> [c \in Sections |-> -1],
                resetKey |-> 0, userId |-> 0, shouldFetch |-> FALSE,
                rootError |-> Null,
                reads |-> [c \in Sections |-> NoRead]], SectionOrder)

\* The page after the first render of <App/>.
Init ==
    /\ cache = InitSt.cache
    /\ promises = InitSt.promises
    /\ fetchCount = InitSt.fetchCount
    /\ hasError = InitSt.hasError
    /\ error = InitSt.error
    /\ suspendedOn = InitSt.suspendedOn
    /\ view = InitSt.view
    /\ mountedAt = InitSt.mountedAt
    /\ resetKey = InitSt.resetKey
    /\ userId = InitSt.userId
    /\ shouldFetch = InitSt.shouldFetch
    /\ rootError = InitSt.rootError
    /\ reads = InitSt.reads
    /\ lastOp = Op("Init", 0, "", "")

Settle_DropEntry(p, outcome) ==
    /\ p \in 1..Len(promises)
    /\ promises[p].status = "pending"
    /\ LET s1 == SettlePromise(St, p, outcome)
           s2 == [s1 EXCEPT !.cache[promises[p].key] =
                      IF outcome = "rejected" THEN NoEntry ELSE @]
       IN  Commit(Wake(s2, p, SectionOrder), Op("Settle", p, "", outcome))

\* A producer's timer fires: its promise fulfils or rejects
\* (Math.random() decides), then the waiting Suspense re-renders.
Settle(p, outcome) ==
    /\ p \in 1..Len(promises)
    /\ promises[p].status = "pending"
    /\ Commit(Wake(SettlePromise(St, p, outcome), p, SectionOrder),
              Op("Settle", p, "", outcome))

\* Click on the retry button of a section's fallback.
SectionReset(c) ==
    /\ hasError[c] /\ error[c] # Null
    /\ resetKey < MaxReset
    /\ LET st == RenderMain(ErrorBoundaryReset(St, c), SectionOrder)
       IN  /\ Len(st.promises) <= MaxFetch
           /\ Commit(st, Op("SectionReset", 0, c, ""))

\* Click on the refresh button of the header.
GlobalReset ==
    /\ resetKey < MaxReset
    /\ LET st == RenderMain(handleGlobalReset(St), SectionOrder)
       IN  /\ Len(st.promises) <= MaxFetch
           /\ Commit(st, Op("GlobalReset", 0, "", ""))

Next ==
    \/ \E p \in 1..MaxFetch, outcome \in {"fulfilled", "rejected"} :
          Settle(p, outcome)
    \/ \E c \in Sections : SectionReset(c)
    \/ GlobalReset

Spec == Init /\ [][Next]_vars

----------------------------------------------------------------------------
\* The use() sample (11-use-api): two demo boxes reading the same cache.

Users == {1, 2, 3}
Boxes == {"UserProfile", "ConditionalUser"}

\* <Suspense key={key}><ErrorBoundary><UserProfile/></ErrorBoundary></Suspense>
ProfilePath == <<"ErrorBoundary", "Suspense">>

\* <Suspense><ConditionalUser/></Suspense>
ConditionalPath == <<"Suspense">>

PathOf(c) ==
    IF c \in Sections THEN SectionPath
    ELSE IF c = "UserProfile" THEN ProfilePath
    ELSE ConditionalPath

ConditionalUser_DropOnHide(st) ==
    IF ~st.shouldFetch
    THEN [st EXCEPT !.view["ConditionalUser"] = [kind |-> "prompt", obj |-> Null],
                    !.suspendedOn["ConditionalUser"] = 0,
                    !.cache = CacheDelete(@, st.userId)]
    ELSE Component(st, "ConditionalUser", st.userId, ConditionalPath)

\* if (!shouldFetch) return <prompt/>; const user = use(getUserPromise(userId))
ConditionalUser(st) ==
    IF ~st.shouldFetch
    THEN [st EXCEPT !.view["ConditionalUser"] = [kind |-> "prompt", obj |-> Null],
                    !.suspendedOn["ConditionalUser"] = 0]
    ELSE Component(st, "ConditionalUser", st.userId, ConditionalPath)

\* The render of <App/>: the first box is remounted when key changed and
\* re-rendered otherwise, the second box is always re-rendered.
UseApiRender(st) ==
    LET s1 == IF st.mountedAt["UserProfile"] # st.resetKey
              THEN Mount(st, "UserProfile", st.userId, ProfilePath, st.resetKey)
              ELSE ErrorBoundaryRender(st, "UserProfile", st.userId, ProfilePath)
    IN  ConditionalUser(s1)

handleUserChange_NoClear(st, newUserId) ==
    [st EXCEPT !.userId = newUserId,
               !.resetKey = @ + 1]

\* promiseCache.clear(); setUserId(newUserId); setKey(k => k + 1)
handleUserChange(st, newUserId) ==
    [st EXCEPT !.cache = CacheClear(@),
               !.userId = newUserId,
               !.resetKey = @ + 1]

\* promiseCache.clear(); setKey(k => k + 1)
handleReset(st) ==
    [st EXCEPT !.cache = CacheClear(@),
               !.resetKey = @ + 1]

\* reset={() => { this.setState({ hasError: false, error: null });
\*                this.props.onReset() }}
ErrorBoundaryClassReset(st) ==
    handleReset([st EXCEPT !.hasError["UserProfile"] = FALSE,
                           !.error["UserProfile"] = Null])

\* The Suspense boundaries waiting on the settled promise re-render their
\* children, in tree order.
WakeUseApi(st, p) ==
    LET s1 == IF st.suspendedOn["UserProfile"] = p
              THEN ErrorBoundaryRender(st, "UserProfile", st.userId, ProfilePath)
              ELSE st
    IN  IF s1.suspendedOn["ConditionalUser"] = p
        THEN ConditionalUser(s1)
        ELSE s1

InitUseApiSt ==
    UseApiRender([cache |-> [k \in Users |-> NoEntry],
                  promises |-> <<>>,
                  fetchCount |-> [k \in Users |-> 0],
                  hasError |-> [c \in Boxes |-> FALSE],
                  error |-> [c \in Boxes |-> Null],
                  suspendedOn |-> [c \in Boxes |-> 0],
                  view |-> [c \in Boxes |-> Blank],
                  mountedAt |-> [c \in Boxes |->
                                    IF c = "UserProfile" THEN -1 ELSE 0],
                  resetKey |-> 0, userId |-> 1, shouldFetch |-> FALSE,
                  rootError |-> Null,
                  reads |-> [c \in Boxes |-> NoRead]])

\* The page after the first render of <App/>: useState(1), useState(false),
\* useState(0).
InitUseApi ==
    /\ cache = InitUseApiSt.cache
    /\ promises = InitUseApiSt.promises
    /\ fetchCount = InitUseApiSt.fetchCount
    /\ hasError = InitUseApiSt.hasError
    /\ error = InitUseApiSt.error
    /\ suspendedOn = InitUseApiSt.suspendedOn
    /\ view = InitUseApiSt.view
    /\ mountedAt = InitUseApiSt.mountedAt
    /\ resetKey = InitUseApiSt.resetKey
    /\ userId = InitUseApiSt.userId
    /\ shouldFetch = InitUseApiSt.shouldFetch
    /\ rootError = InitUseApiSt.rootError
    /\ reads = InitUseApiSt.reads
    /\ lastOp = Op("Init", 0, "", "")

\* The timer of a fetchUser call fires: its promise fulfils or rejects.
SettleUser(p, outcome) ==
    /\ p \in 1..Len(promises)
    /\ promises[p].status = "pending"
    /\ Commit(WakeUseApi(SettlePromise(St, p, outcome), p),
              Op("Settle", p, "", outcome))

\* Click on one of the three user buttons.
UserChange(newUserId) ==
    /\ rootError = Null
    /\ resetKey < MaxReset
    /\ LET st == UseApiRender(handleUserChange(St, newUserId))
       IN  /\ Len(st.promises) <= MaxFetch
           /\ Commit(st, Op("UserChange", newUserId, "", ""))

\* Click on the retry button of the first box's fallback.
ProfileReset ==
    /\ rootError = Null
    /\ hasError["UserProfile"] /\ error["UserProfile"] # Null
    /\ resetKey < MaxReset
    /\ LET st == UseApiRender(ErrorBoundaryClassReset(St))
       IN  /\ Len(st.promises) <= MaxFetch
           /\ Commit(st, Op("ProfileReset", 0, "UserProfile", ""))

\* Click on the toggle of the second box: setShouldFetch(!shouldFetch)
ToggleFetch ==
    /\ rootError = Null
    /\ LET st == UseApiRender([St EXCEPT !.shouldFetch = ~@])
       IN  /\ Len(st.promises) <= MaxFetch
           /\ Commit(st, Op("ToggleFetch", 0, "ConditionalUser", ""))

NextUseApi ==
    \/ \E p \in 1..MaxFetch, outcome \in {"fulfilled", "rejected"} :
          SettleUser(p, outcome)
    \/ \E n \in Users : UserChange(n)
    \/ ProfileReset
    \/ ToggleFetch

SpecUseApi == InitUseApi /\ [][NextUseApi]_vars

----------------------------------------------------------------------------
\* Properties of the dashboard.

\* The step invalidates the entry of component c's key.
Invalidates(op, c) ==
    \/ op.op = "GlobalReset"
    \/ op.op = "SectionReset" /\ op.c = c

\* C1: a read of key k issued while the operation cached for k is still
\* pending returns the cached promise itself and does not invoke the
\* fetcher: every read made before settlement sees the promise the first
\* read created.
C1_Deduplication ==
    [][\A c \in Sections :
          ( /\ reads'[c].outcome # "none"
            /\ ~Invalidates(lastOp', c)
            /\ cache[c] # NoEntry
            /\ promises'[cache[c]].status = "pending" )
          => /\ reads'[c].promise = cache[c]
             /\ cache'[c] = cache[c]
             /\ fetchCount'[c] = fetchCount[c]]_vars

\* A sibling's retry remounted a section whose first operation is still
\* pending: its second read got the first promise, one fetch so far.
C1_Witness ==
    /\ lastOp.op = "SectionReset"
    /\ \E c \in Sections \ {lastOp.c} :
          /\ reads[c].outcome = "throw"
          /\ reads[c].obj = PromiseObj(reads[c].promise)
          /\ reads[c].promise <= 3
          /\ fetchCount[c] = 1

\* C2: once the operation cached for k has rejected with error e, a read
\* of k made by a step that does not invalidate k throws that same e, and
\* the fetcher is not invoked; a rejected promise keeps its reason.
C2_RejectedIsSticky ==
    [][/\ \A c \in Sections :
            ( /\ reads'[c].outcome # "none"
              /\ ~Invalidates(lastOp', c)
              /\ cache[c] # NoEntry
              /\ promises'[cache[c]].status = "rejected" )
            => /\ reads'[c].promise = cache[c]
               /\ reads'[c].outcome = "throw"
               /\ reads'[c].obj = ErrorObj(cache[c])
               /\ reads'[c].obj = promises'[cache[c]].reason
               /\ fetchCount'[c] = fetchCount[c]
       /\ \A p \in 1..Len(promises) :
            promises[p].status = "rejected" => promises'[p] = promises[p]]_vars

\* A section whose operation had rejected earlier was read again (remount
\* by a sibling's retry) and threw the error of its first operation.
C2_Witness ==
    /\ lastOp.op = "SectionReset"
    /\ \E c \in Sections \ {lastOp.c} :
          /\ reads[c].outcome = "throw"
          /\ reads[c].obj = ErrorObj(cache[c])
          /\ fetchCount[c] = 1

\* C3: after reset() of a failed boundary owning key k, the next read of k
\* finds no entry, invokes the fetcher once and gets a fresh pending
\* operation; the error captured before the reset is not raised again.
C3_ResetRefetches ==
    [][lastOp'.op = "SectionReset" =>
          LET c == lastOp'.c
          IN  /\ cache'[c] = Len(promises) + 1
              /\ Len(promises') = Len(promises) + 1
              /\ promises'[cache'[c]].status = "pending"
              /\ fetchCount'[c] = fetchCount[c] + 1
              /\ reads'[c].promise = cache'[c]
              /\ reads'[c].outcome = "throw"
              /\ reads'[c].obj = PromiseObj(cache'[c])
              /\ ~hasError'[c] /\ error'[c] = Null
              /\ view'[c].kind = "placeholder"]_vars

\* The retry of a failed section has run: second fetch of its key.
C3_Witness ==
    /\ lastOp.op = "SectionReset"
    /\ fetchCount[lastOp.c] >= 2
    /\ promises[cache[lastOp.c]].status = "pending"
    /\ \E p \in 1..Len(promises) :
          /\ promises[p].key = lastOp.c
          /\ promises[p].status = "rejected"

\* The settling promise is not the one cached for its key: the entry was
\* invalidated while it was pending and a later read stored a new one.
StaleSettle(op, c) ==
    /\ op.op = "Settle"
    /\ c = promises[op.p].key
    /\ cache[c] # NoEntry
    /\ cache[c] # op.p

\* C4: the late settlement of an operation O1 whose entry was invalidated
\* leaves the entry of the newer operation O2 in place and untouched, and
\* the section keeps waiting for (or showing the result of) O2 alone.
C4_StaleSettlementDiscarded ==
    [][\A c \in Sections :
          StaleSettle(lastOp', c) =>
             /\ cache'[c] = cache[c]
             /\ promises'[cache[c]] = promises[cache[c]]
             /\ reads'[c] = NoRead
             /\ suspendedOn'[c] = suspendedOn[c]
             /\ view'[c] = view[c]
             /\ hasError'[c] = hasError[c] /\ error'[c] = error[c]
             /\ fetchCount'[c] = fetchCount[c]]_vars

\* An operation of an earlier generation rejected while a newer operation
\* of the same key was cached.
C4_Witness ==
    /\ lastOp.op = "Settle"
    /\ lastOp.outcome = "rejected"
    /\ cache[promises[lastOp.p].key] \notin {NoEntry, lastOp.p}
    /\ promises[cache[promises[lastOp.p].key]].status = "pending"

\* C5: invalidating key k (cache.delete(k) in handleSectionReset) leaves
\* the presence, the identity and the status of the entry of every other
\* key exactly as before.
C5_InvalidateFrame ==
    [][lastOp'.op = "SectionReset" =>
          \A k2 \in Sections \ {lastOp'.c} :
             /\ cache'[k2] = cache[k2]
             /\ cache[k2] # NoEntry => promises'[cache[k2]] = promises[cache[k2]]]_vars

\* A key was invalidated while another key held a fulfilled entry and a
\* third one a pending or rejected entry.
C5_Witness ==
    /\ lastOp.op = "SectionReset"
    /\ \E k2, k3 \in Sections \ {lastOp.c} :
          /\ k2 # k3
          /\ cache[k2] # NoEntry /\ promises[cache[k2]].status = "fulfilled"
          /\ cache[k3] # NoEntry /\ promises[cache[k3]].status # "fulfilled"

\* C6: when the operation of section a rejects and a's boundary captures
\* the error, the boundary state, the view, the Suspense state and the
\* cache entry of every other section are unchanged.
C6_FailureIsolation ==
    [][\A a \in Sections :
          ( /\ lastOp'.op = "Settle" /\ lastOp'.outcome = "rejected"
            /\ ~hasError[a] /\ hasError'[a] )
          => \A b \in Sections \ {a} :
                /\ hasError'[b] = hasError[b]
                /\ error'[b] = error[b]
                /\ view'[b] = view[b]
                /\ suspendedOn'[b] = suspendedOn[b]
                /\ cache'[b] = cache[b]
                /\ cache[b] # NoEntry => promises'[cache[b]] = promises[cache[b]]]_vars

\* A section has just failed while one sibling shows its value and the
\* other its placeholder.
C6_Witness ==
    /\ lastOp.op = "Settle" /\ lastOp.outcome = "rejected"
    /\ \E a \in Sections :
          /\ hasError[a] /\ error[a] = ErrorObj(lastOp.p)
          /\ view[a].kind = "fallback"
          /\ \E b, d \in Sections \ {a} :
                /\ view[b].kind = "value"
                /\ view[d].kind = "placeholder"

\* C7: a single section's reset leaves every sibling section alone: the
\* sibling's boundary state is unchanged, its subtree is not remounted or
\* re-suspended, its producer is not invoked, its cache entry is unchanged.
C7_SectionResetIsLocal ==
    [][lastOp'.op = "SectionReset" =>
          \A b \in Sections \ {lastOp'.c} :
             /\ hasError'[b] = hasError[b]
             /\ error'[b] = error[b]
             /\ mountedAt'[b] = mountedAt[b]
             /\ reads'[b] = NoRead
             /\ suspendedOn'[b] = suspendedOn[b]
             /\ fetchCount'[b] = fetchCount[b]
             /\ cache'[b] = cache[b]]_vars

\* C8: a failed boundary with captured error e stays failed with e and
\* keeps showing its fallback across every step other than its own reset
\* and the global reset.
C8_FailedUntilReset ==
    [][\A c \in Sections :
          ( /\ hasError[c] /\ error[c] # Null
            /\ ~Invalidates(lastOp', c) )
          => /\ hasError'[c]
             /\ error'[c] = error[c]
             /\ view'[c] = [kind |-> "fallback", obj |-> error[c]]]_vars

\* A section is still failed with the error of its first operation after
\* a sibling was reset and the sibling's new operation has settled.
C8_Witness ==
    /\ lastOp.op = "Settle"
    /\ resetKey >= 1
    /\ lastOp.p > 3
    /\ \E c \in Sections \ {promises[lastOp.p].key} :
          /\ hasError[c] /\ error[c] = ErrorObj(cache[c])
          /\ cache[c] <= 3
          /\ view[c].kind = "fallback"

\* C9: what a read does is fixed by the status of the promise it read:
\* fulfilled, it returns the stored value; rejected, it throws the stored
\* reason; pending, it throws the promise itself.  Nothing is returned for
\* a pending or rejected promise.
C9_ReadOutcome ==
    \A c \in DOMAIN reads :
        reads[c].outcome # "none" =>
           LET pr == promises[reads[c].promise]
           IN  /\ pr.status = "fulfilled" =>
                    /\ reads[c].outcome = "return"
                    /\ reads[c].obj = pr.value
                    /\ reads[c].obj.type = "Data"
               /\ pr.status = "rejected" =>
                    /\ reads[c].outcome = "throw"
                    /\ reads[c].obj = pr.reason
                    /\ reads[c].obj.type = "Error"
               /\ pr.status = "pending" =>
                    /\ reads[c].outcome = "throw"
                    /\ reads[c].obj = PromiseObj(reads[c].promise)
               /\ reads[c].outcome = "return" => view[c] = [kind |-> "value", obj |-> pr.value]

\* The same step made the three kinds of read: a value returned, an error
\* thrown and a pending promise thrown.
C9_Witness ==
    \E a, b, d \in DOMAIN reads :
        /\ reads[a].outcome = "return"
        /\ reads[b].outcome = "throw" /\ reads[b].obj.type = "Error"
        /\ reads[d].outcome = "throw" /\ reads[d].obj.type = "Promise"

\* C10: boundaries are signal-specific.  A thrown pending promise is taken
\* by the nearest Suspense, also when an ErrorBoundary stands between them,
\* and never puts a boundary into the failed state; a thrown error is never
\* taken by a Suspense: it reaches the nearest ErrorBoundary above the
\* reader, or leaves the root when the reader has none.
C10_SignalSpecific ==
    /\ \A c \in DOMAIN reads :
          /\ ( reads[c].outcome = "throw" /\ reads[c].obj.type = "Promise" )
             => /\ reads[c].caughtBy = "Suspense"
                /\ rootError = Null =>
                      /\ suspendedOn[c] = reads[c].obj.id
                      /\ view[c].kind = "placeholder"
                      /\ ~hasError[c]
          /\ ( reads[c].outcome = "throw" /\ reads[c].obj.type = "Error" )
             => /\ reads[c].caughtBy =
                      IF \E i \in 1..Len(PathOf(c)) : PathOf(c)[i] = "ErrorBoundary"
                      THEN "ErrorBoundary" ELSE "root"
                /\ suspendedOn[c] = 0
                /\ ( reads[c].caughtBy = "ErrorBoundary" /\ rootError = Null ) =>
                      /\ hasError[c] /\ error[c] = reads[c].obj
                      /\ view[c] = [kind |-> "fallback", obj |-> reads[c].obj]
                /\ reads[c].caughtBy = "root" => rootError = reads[c].obj
          /\ hasError[c] => error[c].type = "Error"
          /\ suspendedOn[c] # 0 => ~hasError[c]
    /\ rootError.type \in {"null", "Error"}

\* One rejection reached both readers of the key: under the first box it
\* passed to the ErrorBoundary, under the second box, which has only a
\* Suspense above it, it left the root.
C10_Witness ==
    /\ lastOp.op = "Settle" /\ lastOp.outcome = "rejected"
    /\ "UserProfile" \in DOMAIN reads
    /\ reads["UserProfile"].caughtBy = "ErrorBoundary"
    /\ reads["ConditionalUser"].caughtBy = "root"
    /\ rootError = ErrorObj(lastOp.p)

----------------------------------------------------------------------------
\* Progress of a section, the boundary's state machine, resets.

\* C11: while the operation a section reads is pending, its Suspense shows
\* the placeholder and waits on that operation; when the operation fulfils
\* with value v the subtree is re-invoked, its read returns v and the
\* placeholder is replaced by the rendered value.
C11_PlaceholderThenValue ==
    /\ [](\A c \in Sections :
            ( cache[c] # NoEntry /\ promises[cache[c]].status = "pending" )
            => /\ view[c] = [kind |-> "placeholder", obj |-> Null]
               /\ suspendedOn[c] = cache[c])
    /\ [][\A c \in Sections :
            ( /\ lastOp'.op = "Settle" /\ lastOp'.outcome = "fulfilled"
              /\ suspendedOn[c] = lastOp'.p )
            => /\ view[c].kind = "placeholder"
               /\ reads'[c].outcome = "return"
               /\ reads'[c].promise = lastOp'.p
               /\ reads'[c].obj = DataObj(lastOp'.p)
               /\ view'[c] = [kind |-> "value", obj |-> DataObj(lastOp'.p)]
               /\ suspendedOn'[c] = 0]_vars

\* An operation has just fulfilled and the section that was waiting on it
\* shows its value.
C11_Witness ==
    /\ lastOp.op = "Settle" /\ lastOp.outcome = "fulfilled"
    /\ \E c \in Sections :
          /\ reads[c].outcome = "return"
          /\ reads[c].obj = DataObj(lastOp.p)
          /\ view[c] = [kind |-> "value", obj |-> DataObj(lastOp.p)]

----------------------------------------------------------------------------
\* The book's sketch of what Suspense does, put in place of the host's
\* Suspense in the dashboard tree.

\* catch (promise) { if (promise instanceof Promise) {
\*   promise.then(() => { forceUpdate(); }); return fallback; } ... }
\* then() is given a fulfilment continuation only: a rejection calls
\* nothing, a fulfilment re-renders the children.
SuspenseSketchThen(st, p, outcome) ==
    IF outcome = "fulfilled" THEN Wake(st, p, SectionOrder) ELSE st

\* A producer's timer fires under the sketch.
SketchSettle(p, outcome) ==
    /\ p \in 1..Len(promises)
    /\ promises[p].status = "pending"
    /\ Commit(SuspenseSketchThen(SettlePromise(St, p, outcome), p, outcome),
              Op("Settle", p, "", outcome))

NextSketch ==
    \/ \E p \in 1..MaxFetch, outcome \in {"fulfilled", "rejected"} :
          SketchSettle(p, outcome)
    \/ GlobalReset

SpecSketch == Init /\ [][NextSketch]_vars

\* C12: a Suspense that caught a pending operation re-invokes its subtree
\* when that operation settles, by fulfilment or by rejection; after a
\* rejection the re-invoked read throws the error, which reaches the
\* ErrorBoundary, and the placeholder does not stay for a settled operation.
C12_WakesOnEverySettlement ==
    [][\A c \in Sections :
          ( lastOp'.op = "Settle" /\ suspendedOn[c] = lastOp'.p )
          => /\ reads'[c].outcome # "none"
             /\ reads'[c].promise = lastOp'.p
             /\ suspendedOn'[c] = 0
             /\ view'[c].kind # "placeholder"
             /\ lastOp'.outcome = "rejected" =>
                   /\ hasError'[c]
                   /\ error'[c] = ErrorObj(lastOp'.p)]_vars

\* C13: a boundary that intercepts a failure stores exactly the object the
\* descendant threw and hands that object to its fallback; in every state
\* a boundary is failed if and only if it holds a captured error.
C13_CapturedError ==
    \A c \in DOMAIN hasError :
        /\ hasError[c] <=> error[c] # Null
        /\ hasError[c] =>
              /\ error[c].type = "Error"
              /\ view[c] = [kind |-> "fallback", obj |-> error[c]]
        /\ reads[c].caughtBy = "ErrorBoundary" =>
              /\ hasError[c]
              /\ reads[c].obj = promises[reads[c].promise].reason
              /\ error[c] = reads[c].obj
              /\ view[c].obj = reads[c].obj

\* A boundary has just intercepted the error its descendant threw while a
\* sibling boundary is clean.
C13_Witness ==
    \E c, d \in Sections :
        /\ reads[c].caughtBy = "ErrorBoundary"
        /\ hasError[c] /\ error[c] = ErrorObj(reads[c].promise)
        /\ ~hasError[d] /\ error[d] = Null

\* C14: a boundary goes clean -> failed -> clean.  reset() of a failed
\* boundary re-renders the children and, unless they throw a failure again
\* in that render, leaves the boundary clean with the children (not the
\* fallback) displayed; a boundary becomes failed, or changes its captured
\* error, only by intercepting a failure thrown in that step.
C14_BoundaryStateMachine ==
    [][\A c \in Sections :
          /\ ( lastOp'.op = "SectionReset" /\ lastOp'.c = c )
             => /\ hasError[c]
                /\ reads'[c].outcome # "none"
                /\ reads'[c].caughtBy # "ErrorBoundary" =>
                      /\ ~hasError'[c] /\ error'[c] = Null
                      /\ view'[c].kind \in {"placeholder", "value"}
          /\ ( hasError'[c] /\ (~hasError[c] \/ error'[c] # error[c]) )
             => /\ reads'[c].caughtBy = "ErrorBoundary"
                /\ reads'[c].obj.type = "Error"
                /\ error'[c] = reads'[c].obj]_vars

\* A section failed, was reset, and the operation of its retry fulfilled:
\* the boundary is clean and the children show the value.
C14_Witness ==
    /\ lastOp.op = "Settle" /\ lastOp.outcome = "fulfilled"
    /\ Len(promises) = 4 /\ lastOp.p = 4 /\ resetKey = 1
    /\ LET c == promises[4].key
       IN  /\ ~hasError[c] /\ error[c] = Null
           /\ view[c] = [kind |-> "value", obj |-> DataObj(4)]
           /\ \E q \in 1..3 : promises[q].key = c /\ promises[q].status = "rejected"

\* C15: one click on a failed section's retry invokes the producer of that
\* section's key exactly once and no other producer; when the operation of
\* the retry rejects with a new error e2, the boundary is failed with e2,
\* which is the error of no earlier operation.
C15_OneAttemptPerReset ==
    [][\A c \in Sections :
          /\ ( lastOp'.op = "SectionReset" /\ lastOp'.c = c )
             => /\ fetchCount'[c] = fetchCount[c] + 1
                /\ \A k \in Sections \ {c} : fetchCount'[k] = fetchCount[k]
                /\ Len(promises') = Len(promises) + 1
                /\ promises'[Len(promises')].key = c
          /\ ( /\ lastOp'.op = "Settle" /\ lastOp'.outcome = "rejected"
               /\ suspendedOn[c] = lastOp'.p )
             => /\ hasError'[c]
                /\ error'[c] = promises'[lastOp'.p].reason
                /\ \A q \in 1..Len(promises) :
                      q # lastOp'.p => promises'[q].reason # error'[c]]_vars

\* The operation of a retry rejected too: the section is failed with the
\* error of the second operation of its key.
C15_Witness ==
    /\ lastOp.op = "Settle" /\ lastOp.outcome = "rejected"
    /\ Len(promises) = 4 /\ lastOp.p = 4 /\ resetKey = 1
    /\ LET c == promises[4].key
       IN  /\ fetchCount[c] = 2
           /\ hasError[c] /\ error[c] = ErrorObj(4)
           /\ \E q \in 1..3 : promises[q].key = c /\ promises[q].reason = ErrorObj(q)

\* C16: the global reset removes every cache entry and remounts the whole
\* coordinator, after which every boundary is clean and every section's
\* read invokes its producer anew; a single section's reset is distinct in
\* that it does not remount the coordinator (the siblings stay mounted).
C16_GlobalResetVsSectionReset ==
    [][/\ lastOp'.op = "GlobalReset" =>
            \A c \in Sections :
               /\ cache'[c] > Len(promises)
               /\ reads'[c].promise = cache'[c]
               /\ promises'[cache'[c]].status = "pending"
               /\ fetchCount'[c] = fetchCount[c] + 1
               /\ mountedAt'[c] = resetKey' /\ mountedAt'[c] # mountedAt[c]
               /\ ~hasError'[c] /\ error'[c] = Null
       /\ lastOp'.op = "SectionReset" =>
            \A b \in Sections \ {lastOp'.c} : mountedAt'[b] = mountedAt[b]]_vars

\* C17: sections progress independently.  A section whose own operation
\* has fulfilled displays its value, with a clean boundary and no pending
\* suspension, whatever the status of the other sections' operations.
C17_IndependentProgress ==
    \A c \in Sections :
        ( cache[c] # NoEntry /\ promises[cache[c]].status = "fulfilled" )
        => /\ view[c] = [kind |-> "value", obj |-> DataObj(cache[c])]
           /\ suspendedOn[c] = 0
           /\ ~hasError[c]

\* The slowest section (activities) shows its value while stats is still
\* pending and tasks has failed.
C17_Witness ==
    /\ view["activities"].kind = "value"
    /\ promises[cache["stats"]].status = "pending"
    /\ view["stats"].kind = "placeholder"
    /\ promises[cache["tasks"]].status = "rejected"
    /\ view["tasks"].kind = "fallback"

\* C18: idempotence of a fulfilled key.  In every step that does not clear
\* the cache, each render that reads a key whose operation has fulfilled
\* obtains the cached promise and its value, the producer is not invoked,
\* the entry stays, and a fulfilled promise never changes afterwards.
C18_FulfilledReadIdempotent ==
    [][/\ \A c \in Boxes :
             ( /\ reads'[c].outcome # "none"
               /\ lastOp'.op \notin {"UserChange", "ProfileReset"}
               /\ cache[userId] # NoEntry
               /\ promises'[cache[userId]].status = "fulfilled" )
             => /\ reads'[c].promise = cache[userId]
                /\ reads'[c].outcome = "return"
                /\ reads'[c].obj = promises'[cache[userId]].value
                /\ view'[c] = [kind |-> "value", obj |-> reads'[c].obj]
                /\ cache' = cache
                /\ fetchCount' = fetchCount
                /\ Len(promises') = Len(promises)
       /\ \A p \in 1..Len(promises) :
             promises[p].status = "fulfilled" => promises'[p] = promises[p]
      ]_vars

\* A toggle re-rendered both boxes after the user's operation had already
\* fulfilled: both reads returned the one value, one fetch in all.
C18_Witness ==
    /\ lastOp.op = "ToggleFetch"
    /\ shouldFetch
    /\ promises[cache[userId]].status = "fulfilled"
    /\ reads["UserProfile"].outcome = "return"
    /\ reads["ConditionalUser"].outcome = "return"
    /\ reads["UserProfile"].obj = reads["ConditionalUser"].obj
    /\ fetchCount[userId] = 1

----------------------------------------------------------------------------
\* src/utils/promiseCache.ts: cachedFetch, invalidateCache, clearCache,
\* called with the keys of fetchTask.

\* fetchTask(taskId) reads the key `task-${taskId}`
TaskKeys == {"task-1", "task-2"}

\* if (cache.has(key)) return cache.get(key);
\* const promise = fetcher(); cache.set(key, promise); ... return promise
\* The promise returned is cache[key] of the result.
cachedFetch(st, key) ==
    IF st.cache[key] # NoEntry
    THEN st
    ELSE LET s1 == fetcher(st, key)
         IN  [s1 EXCEPT !.cache[key] = Len(s1.promises)]

cachedFetchCatch_Never(st, p, outcome) == st

cachedFetchCatch_Always(st, p, outcome) ==
    [st EXCEPT !.cache = CacheDelete(@, st.promises[p].key)]

\* promise.catch(() => { cache.delete(key) }): the continuation runs on
\* rejection only and deletes by key, whichever promise the key holds.
cachedFetchCatch(st, p, outcome) ==
    IF outcome = "rejected"
    THEN [st EXCEPT !.cache = CacheDelete(@, st.promises[p].key)]
    ELSE st

\* cache.delete(key)
invalidateCache(st, key) == [st EXCEPT !.cache = CacheDelete(@, key)]

\* cache.clear()
clearCache(st) == [st EXCEPT !.cache = CacheClear(@)]

InitPromiseCache ==
    /\ cache = [k \in TaskKeys |-> NoEntry]
    /\ promises = <<>>
    /\ fetchCount = [k \in TaskKeys |-> 0]
    /\ hasError = [k \in TaskKeys |-> FALSE]
    /\ error = [k \in TaskKeys |-> Null]
    /\ suspendedOn = [k \in TaskKeys |-> 0]
    /\ view = [k \in TaskKeys |-> Blank]
    /\ mountedAt = [k \in TaskKeys |-> 0]
    /\ resetKey = 0
    /\ userId = 1
    /\ shouldFetch = FALSE
    /\ rootError = Null
    /\ reads = [k \in TaskKeys |-> NoRead]
    /\ lastOp = Op("Init", 0, "", "")

\* A caller runs cachedFetch(key, fetcher) and gets the promise back.
CachedFetchCall(key) ==
    /\ cache[key] # NoEntry \/ Len(promises) < MaxProduce
    /\ LET st == cachedFetch(St, key)
           p == st.cache[key]
       IN  Commit([st EXCEPT !.reads[key] =
                       [outcome |-> "return", promise |-> p,
                        obj |-> PromiseObj(p), caughtBy |-> "none"]],
                  Op("cachedFetch", p, key, ""))

\* A caller runs invalidateCache(key).
InvalidateCacheCall(key) ==
    Commit(invalidateCache(St, key), Op("invalidateCache", 0, key, ""))

\* A caller runs clearCache().
ClearCacheCall ==
    Commit(clearCache(St), Op("clearCache", 0, "", ""))

\* The request behind a promise made by cachedFetch completes; the catch
\* continuation registered by cachedFetch runs with the settlement.
SettleCached(p, outcome) ==
    /\ p \in 1..Len(promises)
    /\ promises[p].status = "pending"
    /\ Commit(cachedFetchCatch(SettlePromise(St, p, outcome), p, outcome),
              Op("Settle", p, promises[p].key, outcome))

NextPromiseCache ==
    \/ \E key \in TaskKeys : CachedFetchCall(key)
    \/ \E key \in TaskKeys : InvalidateCacheCall(key)
    \/ ClearCacheCall
    \/ \E p \in 1..MaxProduce, outcome \in {"fulfilled", "rejected"} :
          SettleCached(p, outcome)

SpecPromiseCache == InitPromiseCache /\ [][NextPromiseCache]_vars

C20_LateRejectionDiscarded ==
    [][\A k \in TaskKeys :
          ( StaleSettle(lastOp', k) /\ lastOp'.outcome = "rejected" )
          => cache'[k] = cache[k]]_vars

----------------------------------------------------------------------------
\* src/lib/suspense.ts: wrapPromise, invalidateCache, invalidateAllCache.
\* A resource is the record of the promise it wraps: resource.status,
\* resource.value and resource.error are written by the continuation in
\* the same turn in which the promise settles.

\* cacheKey?: string
CacheKeys == {"k1", "k2"}

wrapPromise_StoreAtCreation(st, cacheKey) ==
    IF st.cache[cacheKey] # NoEntry
    THEN LET r == use(st.promises[st.cache[cacheKey]])
         IN  [st EXCEPT !.reads[cacheKey] =
                 [outcome |-> r.outcome, promise |-> st.cache[cacheKey],
                  obj |-> r.obj, caughtBy |-> "none"]]
    ELSE LET s1 == fetcher(st, cacheKey)
         IN  [s1 EXCEPT !.cache[cacheKey] = Len(s1.promises),
                        !.reads[cacheKey] =
                 [outcome |-> "return", promise |-> Len(s1.promises),
                  obj |-> Null, caughtBy |-> "none"]]

\* if (cacheKey && cache.has(cacheKey)) { fulfilled: return () => value;
\*   rejected: throw cached.error; else throw cached.promise }
\* const resource = { status: 'pending', promise }; promise.then(...);
\* return () => {...}
\* On a hit the promise argument is dropped: nothing is attached to it.
\* On a miss nothing is stored in the cache: cache.set is called by the
\* continuation only.  reads[cacheKey] records what the call did and the
\* resource its result is bound to.
wrapPromise(st, cacheKey) ==
    IF st.cache[cacheKey] # NoEntry
    THEN LET r == use(st.promises[st.cache[cacheKey]])
         IN  [st EXCEPT !.reads[cacheKey] =
                 [outcome |-> r.outcome, promise |-> st.cache[cacheKey],
                  obj |-> r.obj, caughtBy |-> "none"]]
    ELSE LET s1 == fetcher(st, cacheKey)
         IN  [s1 EXCEPT !.reads[cacheKey] =
                 [outcome |-> "return", promise |-> Len(s1.promises),
                  obj |-> Null, caughtBy |-> "none"]]

\* (value) => { resource.status = 'fulfilled'; resource.value = value;
\*              if (cacheKey) cache.set(cacheKey, resource) }
\* (error) => { resource.status = 'rejected'; resource.error = error;
\*              if (cacheKey) cache.set(cacheKey, resource) }
wrapPromiseThen(st, p) ==
    [st EXCEPT !.cache[st.promises[p].key] = p]

\* invalidateCache(key) of suspense.ts: cache.delete(key)
suspenseInvalidateCache(st, key) == [st EXCEPT !.cache = CacheDelete(@, key)]

\* cache.clear()
invalidateAllCache(st) == [st EXCEPT !.cache = CacheClear(@)]

InitWrap ==
    /\ cache = [k \in CacheKeys |-> NoEntry]
    /\ promises = <<>>
    /\ fetchCount = [k \in CacheKeys |-> 0]
    /\ hasError = [k \in CacheKeys |-> FALSE]
    /\ error = [k \in CacheKeys |-> Null]
    /\ suspendedOn = [k \in CacheKeys |-> 0]
    /\ view = [k \in CacheKeys |-> Blank]
    /\ mountedAt = [k \in CacheKeys |-> 0]
    /\ resetKey = 0
    /\ userId = 1
    /\ shouldFetch = FALSE
    /\ rootError = Null
    /\ reads = [k \in CacheKeys |-> NoRead]
    /\ lastOp = Op("Init", 0, "", "")

\* A caller runs wrapPromise(promise, cacheKey) with a promise it made.
WrapPromiseCall(cacheKey) ==
    /\ cache[cacheKey] # NoEntry \/ Len(promises) < MaxProduce
    /\ LET st == wrapPromise(St, cacheKey)
       IN  Commit(st, Op("wrapPromise", st.reads[cacheKey].promise,
                         cacheKey, ""))

\* A caller runs invalidateCache(key).
SuspenseInvalidateCall(key) ==
    Commit(suspenseInvalidateCache(St, key), Op("invalidateCache", 0, key, ""))

\* A caller runs invalidateAllCache().
InvalidateAllCall ==
    Commit(invalidateAllCache(St), Op("invalidateAllCache", 0, "", ""))

\* A wrapped promise settles and its continuation runs.
SettleWrapped(p, outcome) ==
    /\ p \in 1..Len(promises)
    /\ promises[p].status = "pending"
    /\ Commit(wrapPromiseThen(SettlePromise(St, p, outcome), p),
              Op("Settle", p, promises[p].key, outcome))

NextWrap ==
    \/ \E key \in CacheKeys : WrapPromiseCall(key)
    \/ \E key \in CacheKeys : SuspenseInvalidateCall(key)
    \/ InvalidateAllCall
    \/ \E p \in 1..MaxProduce, outcome \in {"fulfilled", "rejected"} :
          SettleWrapped(p, outcome)

SpecWrap == InitWrap /\ [][NextWrap]_vars

\* The resources wrapped under key k that have not settled.
UnsettledFor(k) ==
    {p \in 1..Len(promises) : promises[p].key = k /\ promises[p].status = "pending"}

\* C21: wrapPromise keeps one operation per key.  A wrapPromise(p2, k)
\* issued while a resource wrapped under k is unsettled creates no second
\* resource and binds its result to the existing one, so there is never
\* more than one unsettled resource per key.
C21_OneOperationPerKey ==
    /\ [](\A k \in CacheKeys : Cardinality(UnsettledFor(k)) <= 1)
    /\ [][\A k \in CacheKeys :
             ( lastOp'.op = "wrapPromise" /\ lastOp'.c = k
               /\ UnsettledFor(k) # {} )
             => /\ Len(promises') = Len(promises)
                /\ reads'[k].promise \in UnsettledFor(k)]_vars

\* C22: after invalidateCache(k) or invalidateAllCache() ran while the
\* resource wrapped under k was pending, the settlement of that resource
\* puts no entry for k into the cache: k stays absent, so the next
\* wrapPromise(_, k) does not meet the stale value or error.
C22_InvalidatedSettlementDiscarded ==
    [][\A k \in CacheKeys :
          ( /\ \/ lastOp.op = "invalidateAllCache"
               \/ lastOp.op = "invalidateCache" /\ lastOp.c = k
            /\ lastOp'.op = "Settle"
            /\ promises[lastOp'.p].key = k )
          => /\ cache'[k] = cache[k]
             /\ cache'[k] # lastOp'.p]_vars

\* C30: a wrapPromise call for a key that already has an unsettled
\* resource is detected: the call throws CacheMisuseError and no second
\* resource is created.
C30_MisuseDetected ==
    [][\A k \in CacheKeys :
          ( lastOp'.op = "wrapPromise" /\ lastOp'.c = k
            /\ UnsettledFor(k) # {} )
          => /\ reads'[k].outcome = "throw"
             /\ reads'[k].obj.type = "CacheMisuseError"
             /\ Len(promises') = Len(promises)]_vars

----------------------------------------------------------------------------
\* The TaskBoard of the TaskFlow exercise: taskCache, fetchProject,
\* fetchTasks, fetchTeamMembers, TaskBoardContent under
\* ErrorBoundary > Suspense, and the retry button of
\* TaskBoardWithRecovery.  userId holds the projectId prop and resetKey
\* holds retryCount.

ProjectIds == {1, 2}

\* `project-${projectId}`, `tasks-${projectId}`, `members-${projectId}`
taskCacheKey(kind, projectId) ==
    kind \o (IF projectId = 1 THEN "-1" ELSE "-2")

\* The order of the three use() calls of TaskBoardContent.
ContentReads == <<"project", "tasks", "members">>

TaskCacheKeys ==
    {taskCacheKey(ContentReads[i], pid) : i \in 1..Len(ContentReads), pid \in ProjectIds}

\* const project = use(fetchProject(projectId));
\* const tasks = use(fetchTasks(projectId));
\* const members = use(fetchTeamMembers(projectId));
\* A read that throws ends the render: the reads after it are not made.
\* Each fetchX is the get-or-create of taskCache, the same code shape as
\* getCachedPromise.
RECURSIVE TaskBoardContent(_, _)
TaskBoardContent(st, kinds) ==
    IF kinds = <<>> THEN st
    ELSE LET s1 == Component(st, "TaskBoard",
                             taskCacheKey(Head(kinds), st.userId), SectionPath)
         IN  IF s1.reads["TaskBoard"].outcome = "return"
             THEN TaskBoardContent(s1, Tail(kinds))
             ELSE s1

\* ErrorBoundary.render() over <Suspense><TaskBoardContent/></Suspense>
TaskBoardRender(st) ==
    IF st.hasError["TaskBoard"] /\ st.error["TaskBoard"] # Null
    THEN [st EXCEPT !.view["TaskBoard"] =
              [kind |-> "fallback", obj |-> st.error["TaskBoard"]]]
    ELSE TaskBoardContent(st, ContentReads)

\* reset = () => { this.setState({ hasError: false, error: null }) }
\* and the render the setState schedules.
TaskBoardReset(st) ==
    TaskBoardRender([st EXCEPT !.hasError["TaskBoard"] = FALSE,
                               !.error["TaskBoard"] = Null])

\* componentDidUpdate(prevProps): if (this.state.hasError &&
\*   this.props.resetKeys && !arraysEqual(prevProps.resetKeys,
\*   this.props.resetKeys)) this.reset()
\* resetKeys = [projectId, retryCount]
componentDidUpdate(st, prevResetKeys) ==
    IF st.hasError["TaskBoard"] /\ prevResetKeys # <<st.userId, st.resetKey>>
    THEN TaskBoardReset(st)
    ELSE st

\* onClick={() => { setRetryCount(c => c + 1); reset() }}: one render with
\* the clean state and the new resetKeys, then componentDidUpdate.
TaskBoardRetryClick(st) ==
    LET prev == <<st.userId, st.resetKey>>
    IN  componentDidUpdate(TaskBoardReset([st EXCEPT !.resetKey = @ + 1]), prev)

\* The parent passes another projectId: render, then componentDidUpdate.
TaskBoardSetProject(st, projectId) ==
    LET prev == <<st.userId, st.resetKey>>
    IN  componentDidUpdate(TaskBoardRender([st EXCEPT !.userId = projectId]), prev)

InitTaskBoardSt ==
    TaskBoardRender([cache |-> [k \in TaskCacheKeys |-> NoEntry],
                     promises |-> <<>>,
                     fetchCount |-> [k \in TaskCacheKeys |-> 0],
                     hasError |-> [c \in {"TaskBoard"} |-> FALSE],
                     error |-> [c \in {"TaskBoard"} |-> Null],
                     suspendedOn |-> [c \in {"TaskBoard"} |-> 0],
                     view |-> [c \in {"TaskBoard"} |-> Blank],
                     mountedAt |-> [c \in {"TaskBoard"} |-> 0],
                     resetKey |-> 0, userId |-> 1, shouldFetch |-> FALSE,
                     rootError |-> Null,
                     reads |-> [c \in {"TaskBoard"} |-> NoRead]])

\* The board after the first render with projectId 1 and useState(0).
InitTaskBoard ==
    /\ cache = InitTaskBoardSt.cache
    /\ promises = InitTaskBoardSt.promises
    /\ fetchCount = InitTaskBoardSt.fetchCount
    /\ hasError = InitTaskBoardSt.hasError
    /\ error = InitTaskBoardSt.error
    /\ suspendedOn = InitTaskBoardSt.suspendedOn
    /\ view = InitTaskBoardSt.view
    /\ mountedAt = InitTaskBoardSt.mountedAt
    /\ resetKey = InitTaskBoardSt.resetKey
    /\ userId = InitTaskBoardSt.userId
    /\ shouldFetch = InitTaskBoardSt.shouldFetch
    /\ rootError = InitTaskBoardSt.rootError
    /\ reads = InitTaskBoardSt.reads
    /\ lastOp = Op("Init", 0, "", "")

\* A request of fetchWithErrorHandling completes; the Suspense waiting on
\* its promise re-renders the content.
TaskBoardSettle(p, outcome) ==
    /\ p \in 1..Len(promises)
    /\ promises[p].status = "pending"
    /\ LET s1 == SettlePromise(St, p, outcome)
       IN  Commit(IF s1.suspendedOn["TaskBoard"] = p
                  THEN TaskBoardRender(s1) ELSE s1,
                  Op("Settle", p, promises[p].key, outcome))

\* Click on the retry button of the fallback.
TaskBoardRetry ==
    /\ hasError["TaskBoard"] /\ error["TaskBoard"] # Null
    /\ resetKey < MaxReset
    /\ Commit(TaskBoardRetryClick(St), Op("Retry", 0, "TaskBoard", ""))

\* Navigation to the other project.
TaskBoardNavigate(projectId) ==
    /\ projectId # userId
    /\ Commit(TaskBoardSetProject(St, projectId),
              Op("SetProject", projectId, "TaskBoard", ""))

NextTaskBoard ==
    \/ \E p \in 1..MaxFetch, outcome \in {"fulfilled", "rejected"} :
          TaskBoardSettle(p, outcome)
    \/ TaskBoardRetry
    \/ \E projectId \in ProjectIds : TaskBoardNavigate(projectId)

SpecTaskBoard == InitTaskBoard /\ [][NextTaskBoard]_vars

\* C23: after an operation of the board has rejected and the boundary has
\* captured the error, the retry re-renders the subtree and its reads
\* re-attempt the failed operation: the key of the failed operation gets a
\* new entry, its fetch is issued again, and the cached rejection is not
\* raised again.
C23_RetryReattempts ==
    [][lastOp'.op = "Retry" =>
          LET k == promises[error["TaskBoard"].id].key
          IN  /\ fetchCount'[k] = fetchCount[k] + 1
              /\ cache'[k] \notin {NoEntry, cache[k]}
              /\ ~( reads'["TaskBoard"].outcome = "throw"
                    /\ reads'["TaskBoard"].obj = error["TaskBoard"] )]_vars

----------------------------------------------------------------------------
\* cachedFetch called with a producer that throws before it returns a
\* promise.

\* if (cache.has(key)) return cache.get(key);
\* const promise = fetcher();   <- throws: the statements after it
\* (cache.set, promise.catch, return) are not executed and the exception
\* leaves cachedFetch.  The error object is made by the producer.
cachedFetchThrowing(st, key) ==
    IF st.cache[key] # NoEntry
    THEN [st EXCEPT !.reads[key] =
              [outcome |-> "return", promise |-> st.cache[key],
               obj |-> PromiseObj(st.cache[key]), caughtBy |-> "none"]]
    ELSE [st EXCEPT !.fetchCount[key] = @ + 1,
                    !.reads[key] =
              [outcome |-> "throw", promise |-> 0,
               obj |-> ErrorObj(0), caughtBy |-> "none"]]

\* The producer invocations for a key that returned no promise.
ThrowCount(key) ==
    fetchCount[key]
      - Cardinality({p \in 1..Len(promises) : promises[p].key = key})

\* A caller runs cachedFetch(key, fetcher) with such a producer.
CachedFetchThrowingCall(key) ==
    /\ cache[key] # NoEntry \/ ThrowCount(key) < MaxThrow
    /\ Commit(cachedFetchThrowing(St, key),
              Op("cachedFetchThrowing", 0, key, ""))

NextSyncThrow ==
    \/ \E key \in TaskKeys : CachedFetchCall(key)
    \/ \E key \in TaskKeys : CachedFetchThrowingCall(key)
    \/ \E p \in 1..MaxProduce, outcome \in {"fulfilled", "rejected"} :
          SettleCached(p, outcome)

SpecSyncThrow == InitPromiseCache /\ [][NextSyncThrow]_vars

\* C24: a producer that throws synchronously inside the get-or-create
\* does not make the call throw: a rejected entry holding the error is
\* recorded for the key, and a later read of the key finds that entry and
\* does not invoke the producer again.
C24_SyncThrowRecorded ==
    [][\A k \in TaskKeys :
          ( lastOp'.op = "cachedFetchThrowing" /\ lastOp'.c = k
            /\ fetchCount'[k] # fetchCount[k] )
          => /\ reads'[k].outcome # "throw"
             /\ cache'[k] # NoEntry
             /\ promises'[cache'[k]].status = "rejected"]_vars

----------------------------------------------------------------------------
\* TaskListParallel: an outer Suspense around TaskListContent, which gives
\* every TaskItem a Suspense of its own; TaskItem reads
\* use(fetchTask(taskId)), and fetchTask goes through cachedFetch.

\* taskIds, as the keys fetchTask derives from them
ListTaskKeys == {"task-1", "task-2", "task-3"}

ListOrder == <<"task-1", "task-2", "task-3">>

\* <Suspense(outer)> ... <Suspense key={taskId}> <TaskItem/>: nearest first
ItemPath == <<"Suspense", "Suspense">>

TaskItem_SuspendsOuter(st, c) ==
    LET s1 == cachedFetch(st, c)
        p == s1.cache[c]
        r == use(s1.promises[p])
        s2 == [s1 EXCEPT !.reads[c] = [outcome |-> r.outcome, promise |-> p,
                                       obj |-> r.obj, caughtBy |-> "none"]]
    IN  IF r.outcome = "return"
        THEN [s2 EXCEPT !.view[c] = [kind |-> "value", obj |-> r.obj],
                        !.suspendedOn[c] = 0]
        ELSE [s2 EXCEPT !.reads[c].caughtBy = "Suspense",
                        !.suspendedOn["TaskListParallel"] = r.obj.id,
                        !.view["TaskListParallel"] =
                            [kind |-> "placeholder", obj |-> Null]]

\* const task = use(fetchTask(taskId)); return <div>{task.title}</div>
TaskItem(st, c) ==
    LET s1 == cachedFetch(st, c)
        p == s1.cache[c]
        r == use(s1.promises[p])
        s2 == [s1 EXCEPT !.reads[c] = [outcome |-> r.outcome, promise |-> p,
                                       obj |-> r.obj, caughtBy |-> "none"]]
    IN  IF r.outcome = "return"
        THEN [s2 EXCEPT !.view[c] = [kind |-> "value", obj |-> r.obj],
                        !.suspendedOn[c] = 0]
        ELSE Throw(s2, c, r.obj, ItemPath)

\* taskIds.map(taskId => <Suspense key={taskId}><TaskItem/></Suspense>)
RECURSIVE TaskListContent(_, _)
TaskListContent(st, order) ==
    IF order = <<>> THEN st
    ELSE TaskListContent(TaskItem(st, Head(order)), Tail(order))

\* <Suspense fallback="전체 로딩 중..."><TaskListContent/></Suspense>
TaskListParallel(st) ==
    TaskListContent([st EXCEPT !.view["TaskListParallel"] =
                         [kind |-> "content", obj |-> Null]], ListOrder)

\* The Suspense boundaries waiting on the settled promise re-render their
\* children: an item's own boundary its item, the outer one the list.
RECURSIVE WakeList(_, _, _)
WakeList(st, p, order) ==
    IF order = <<>>
    THEN IF st.suspendedOn["TaskListParallel"] = p
         THEN TaskListParallel([st EXCEPT !.suspendedOn["TaskListParallel"] = 0])
         ELSE st
    ELSE LET c == Head(order)
         IN  WakeList(IF st.suspendedOn[c] = p THEN TaskItem(st, c) ELSE st,
                      p, Tail(order))

ListNodes == ListTaskKeys \cup {"TaskListParallel"}

InitTaskListSt ==
    TaskListParallel([cache |-> [k \in ListTaskKeys |-> NoEntry],
                      promises |-> <<>>,
                      fetchCount |-> [k \in ListTaskKeys |-> 0],
                      hasError |-> [c \in ListNodes |-> FALSE],
                      error |-> [c \in ListNodes |-> Null],
                      suspendedOn |-> [c \in ListNodes |-> 0],
                      view |-> [c \in ListNodes |-> Blank],
                      mountedAt |-> [c \in ListNodes |-> 0],
                      resetKey |-> 0, userId |-> 1, shouldFetch |-> FALSE,
                      rootError |-> Null,
                      reads |-> [c \in ListNodes |-> NoRead]])

\* The list after its first render.
InitTaskList ==
    /\ cache = InitTaskListSt.cache
    /\ promises = InitTaskListSt.promises
    /\ fetchCount = InitTaskListSt.fetchCount
    /\ hasError = InitTaskListSt.hasError
    /\ error = InitTaskListSt.error
    /\ suspendedOn = InitTaskListSt.suspendedOn
    /\ view = InitTaskListSt.view
    /\ mountedAt = InitTaskListSt.mountedAt
    /\ resetKey = InitTaskListSt.resetKey
    /\ userId = InitTaskListSt.userId
    /\ shouldFetch = InitTaskListSt.shouldFetch
    /\ rootError = InitTaskListSt.rootError
    /\ reads = InitTaskListSt.reads
    /\ lastOp = Op("Init", 0, "", "")

\* The request of a task completes: the catch continuation of cachedFetch
\* runs first (it was attached first), then the waiting boundaries
\* re-render.
TaskListSettle(p, outcome) ==
    /\ p \in 1..Len(promises)
    /\ promises[p].status = "pending"
    /\ outcome = "rejected" => Len(promises) < MaxFetch
    /\ Commit(WakeList(cachedFetchCatch(SettlePromise(St, p, outcome), p, outcome),
                       p, ListOrder),
              Op("Settle", p, promises[p].key, outcome))

NextTaskList ==
    \E p \in 1..MaxFetch, outcome \in {"fulfilled", "rejected"} :
       TaskListSettle(p, outcome)

SpecTaskList == InitTaskList /\ [][NextTaskList]_vars

\* C27: a pending signal is caught by the nearest enclosing Suspense only.
\* A pending read in a TaskItem puts that item's own boundary into its
\* placeholder; the outer boundary never shows its placeholder, and the
\* items that made no pending read in the step keep what they showed.
C27_NearestSuspenseOnly ==
    /\ []( /\ view["TaskListParallel"].kind = "content"
           /\ suspendedOn["TaskListParallel"] = 0
           /\ \A c \in ListTaskKeys :
                 view[c].kind = "placeholder"
                 <=> ( suspendedOn[c] # 0 /\ suspendedOn[c] = cache[c]
                       /\ promises[cache[c]].status = "pending" ) )
    /\ [][\A c \in ListTaskKeys :
             /\ ( reads'[c].outcome = "throw" /\ reads'[c].obj.type = "Promise" )
                => /\ reads'[c].caughtBy = "Suspense"
                   /\ view'[c].kind = "placeholder"
                   /\ suspendedOn'[c] = reads'[c].obj.id
                   /\ view'["TaskListParallel"] = view["TaskListParallel"]
             /\ reads'[c].outcome = "none"
                => /\ view'[c] = view[c]
                   /\ suspendedOn'[c] = suspendedOn[c]]_vars

\* An item whose request failed has read again and shows its placeholder
\* once more, while one sibling shows its value, another still waits for
\* its first request, and the outer boundary shows the list.
C27_Witness ==
    /\ lastOp.op = "Settle" /\ lastOp.outcome = "rejected"
    /\ reads[lastOp.c].outcome = "throw"
    /\ reads[lastOp.c].obj.type = "Promise"
    /\ view[lastOp.c].kind = "placeholder"
    /\ view["TaskListParallel"].kind = "content"
    /\ \E d, e \in ListTaskKeys \ {lastOp.c} :
          /\ view[d].kind = "value"
          /\ view[e].kind = "placeholder" /\ fetchCount[e] = 1

\* C28: the reset epoch starts at 0, goes up by exactly 1 in every section
\* reset and every global reset, and is changed by no other step; so it
\* never decreases and counts the resets made so far.
C28_ResetEpochCounts ==
    /\ [](lastOp.op = "Init" => resetKey = 0)
    /\ [][IF lastOp'.op \in {"SectionReset", "GlobalReset"}
          THEN resetKey' = resetKey + 1
          ELSE resetKey' = resetKey]_vars

\* A section reset has just taken the epoch to 2.
C28_Witness ==
    /\ lastOp.op = "SectionReset"
    /\ resetKey = 2
    /\ \A c \in Sections : mountedAt[c] = 2

\* C29: wherever a Suspense and an ErrorBoundary wrap the same subtree,
\* the ErrorBoundary is the outer of the two: on the way out of every
\* mounted reader the Suspense comes before the ErrorBoundary.
C29_RecoveryBoundaryOuter ==
    \A c \in DOMAIN view :
       view[c].kind # "unmounted"
       => \A i, j \in 1..Len(PathOf(c)) :
             ( PathOf(c)[i] = "Suspense" /\ PathOf(c)[j] = "ErrorBoundary" )
             => i < j

\* C31: when an operation made by cachedFetch rejects, the entry of its
\* key is removed, so the next cachedFetch of the key invokes the fetcher
\* again and returns a new promise; when it fulfils, the entry stays, and
\* a call that finds an entry returns that promise without invoking the
\* fetcher.
C31_RejectionEvicts ==
    [][\A k \in TaskKeys :
          /\ ( lastOp'.op = "Settle" /\ lastOp'.c = k
               /\ lastOp'.outcome = "rejected" )
             => cache'[k] = NoEntry
          /\ ( lastOp'.op = "Settle" /\ lastOp'.outcome = "fulfilled" )
             => cache'[k] = cache[k]
          /\ ( lastOp'.op = "cachedFetch" /\ lastOp'.c = k /\ cache[k] = NoEntry )
             => /\ fetchCount'[k] = fetchCount[k] + 1
                /\ Len(promises') = Len(promises) + 1
                /\ cache'[k] = Len(promises')
                /\ reads'[k].promise = cache'[k]
                /\ promises'[cache'[k]].status = "pending"
          /\ ( lastOp'.op = "cachedFetch" /\ lastOp'.c = k /\ cache[k] # NoEntry )
             => /\ fetchCount'[k] = fetchCount[k]
                /\ promises' = promises
                /\ cache'[k] = cache[k]
                /\ reads'[k].promise = cache[k]]_vars

\* The first operation of a key rejected and the next cachedFetch of the
\* key made a second one, while the other key's operation fulfilled and
\* kept its entry.
C31_Witness ==
    /\ lastOp.op = "cachedFetch"
    /\ Len(promises) = 3
    /\ promises[1].key = lastOp.c /\ promises[1].status = "rejected"
    /\ promises[2].key # lastOp.c /\ promises[2].status = "fulfilled"
    /\ cache[promises[2].key] = 2
    /\ promises[3].key = lastOp.c /\ cache[lastOp.c] = 3
    /\ fetchCount[lastOp.c] = 2

----------------------------------------------------------------------------
\* TaskPage: ErrorBoundary > Suspense > TaskDetail, whose content reads
\* use(fetchTask(taskId)) through cachedFetch.  userId holds the taskId
\* prop.

\* cachedFetch(`task-${taskId}`, ...)
fetchTaskKey(taskId) == IF taskId = 1 THEN "task-1" ELSE "task-2"

\* TaskDetailContent < Suspense (TaskDetail) < Suspense (TaskPage)
\* < ErrorBoundary (TaskPage)
TaskPagePath == <<"Suspense", "Suspense", "ErrorBoundary">>

\* const task = use(fetchTask(taskId)); return <div>...</div>
TaskDetailContent(st) ==
    LET key == fetchTaskKey(st.userId)
        s1 == cachedFetch(st, key)
        p == s1.cache[key]
        r == use(s1.promises[p])
        s2 == [s1 EXCEPT !.reads["TaskPage"] =
                  [outcome |-> r.outcome, promise |-> p,
                   obj |-> r.obj, caughtBy |-> "none"]]
    IN  IF r.outcome = "return"
        THEN [s2 EXCEPT !.view["TaskPage"] = [kind |-> "value", obj |-> r.obj],
                        !.suspendedOn["TaskPage"] = 0]
        ELSE Throw(s2, "TaskPage", r.obj, TaskPagePath)

\* ErrorBoundary.render(): fallback(error, reset) while hasError && error,
\* the children otherwise.
TaskPage(st) ==
    IF st.hasError["TaskPage"] /\ st.error["TaskPage"] # Null
    THEN [st EXCEPT !.view["TaskPage"] =
              [kind |-> "fallback", obj |-> st.error["TaskPage"]]]
    ELSE TaskDetailContent(st)

InitTaskPageSt ==
    TaskPage([cache |-> [k \in TaskKeys |-> NoEntry],
              promises |-> <<>>,
              fetchCount |-> [k \in TaskKeys |-> 0],
              hasError |-> [c \in {"TaskPage"} |-> FALSE],
              error |-> [c \in {"TaskPage"} |-> Null],
              suspendedOn |-> [c \in {"TaskPage"} |-> 0],
              view |-> [c \in {"TaskPage"} |-> Blank],
              mountedAt |-> [c \in {"TaskPage"} |-> 0],
              resetKey |-> 0, userId |-> 1, shouldFetch |-> FALSE,
              rootError |-> Null,
              reads |-> [c \in {"TaskPage"} |-> NoRead]])

\* The page after its first render with taskId 1.
InitTaskPage ==
    /\ cache = InitTaskPageSt.cache
    /\ promises = InitTaskPageSt.promises
    /\ fetchCount = InitTaskPageSt.fetchCount
    /\ hasError = InitTaskPageSt.hasError
    /\ error = InitTaskPageSt.error
    /\ suspendedOn = InitTaskPageSt.suspendedOn
    /\ view = InitTaskPageSt.view
    /\ mountedAt = InitTaskPageSt.mountedAt
    /\ resetKey = InitTaskPageSt.resetKey
    /\ userId = InitTaskPageSt.userId
    /\ shouldFetch = InitTaskPageSt.shouldFetch
    /\ rootError = InitTaskPageSt.rootError
    /\ reads = InitTaskPageSt.reads
    /\ lastOp = Op("Init", 0, "", "")

\* The request of a task completes: the catch continuation of cachedFetch
\* runs first (it was attached first), then the Suspense waiting on the
\* promise re-renders its content.
TaskPageSettle(p, outcome) ==
    /\ p \in 1..Len(promises)
    /\ promises[p].status = "pending"
    /\ outcome = "rejected" => Len(promises) < MaxFetch
    /\ LET s1 == cachedFetchCatch(SettlePromise(St, p, outcome), p, outcome)
       IN  Commit(IF s1.suspendedOn["TaskPage"] = p THEN TaskPage(s1) ELSE s1,
                  Op("Settle", p, promises[p].key, outcome))

\* The parent passes another taskId.
TaskPageNavigate(taskId) ==
    /\ taskId # userId
    /\ LET st == TaskPage([St EXCEPT !.userId = taskId])
       IN  /\ Len(st.promises) <= MaxFetch
           /\ Commit(st, Op("SetTask", taskId, "TaskPage", ""))

NextTaskPage ==
    \/ \E p \in 1..MaxFetch, outcome \in {"fulfilled", "rejected"} :
          TaskPageSettle(p, outcome)
    \/ \E taskId \in {1, 2} : TaskPageNavigate(taskId)

SpecTaskPage == InitTaskPage /\ [][NextTaskPage]_vars

\* C32: when the operation the page waits on rejects, the ErrorBoundary
\* shows its fallback with that error: the page does not go back to the
\* placeholder and the re-invoked read creates no new operation.
C32_RejectionReachesBoundary ==
    [][( lastOp'.op = "Settle" /\ lastOp'.outcome = "rejected"
         /\ suspendedOn["TaskPage"] = lastOp'.p )
       => /\ hasError'["TaskPage"]
          /\ error'["TaskPage"] = ErrorObj(lastOp'.p)
          /\ view'["TaskPage"] = [kind |-> "fallback", obj |-> ErrorObj(lastOp'.p)]
          /\ Len(promises') = Len(promises)]_vars

----------------------------------------------------------------------------
\* ErrorBoundary with resetKeys (src/components/ErrorBoundary.tsx of the
\* TaskFlow exercise): componentDidUpdate and arraysEqual on their own,
\* for any previous and current resetKeys prop.

\* resetKeys?: Array<string | number>: absent, or an array of up to two
\* elements drawn from two values.
ResetKeysProps ==
    {[present |-> FALSE, keys |-> <<>>]}
    \cup {[present |-> TRUE, keys |-> <<>>]}
    \cup {[present |-> TRUE, keys |-> <<a>>] : a \in {1, 2}}
    \cup {[present |-> TRUE, keys |-> <<a, b>>] : a \in {1, 2}, b \in {1, 2}}

\* function arraysEqual(a: any[] = [], b: any[] = []): the default
\* parameter value stands in for an absent array.
ArrayOrDefault(prop) == IF prop.present THEN prop.keys ELSE <<>>

arraysEqual_LengthOnly(a, b) == Len(a) = Len(b)

\* return a.length === b.length && a.every((val, idx) => val === b[idx])
arraysEqual(a, b) ==
    /\ Len(a) = Len(b)
    /\ \A idx \in 1..Len(a) : a[idx] = b[idx]

\* if (this.state.hasError && this.props.resetKeys &&
\*     !arraysEqual(prevProps.resetKeys, this.props.resetKeys)) this.reset()
\* reset = () => { this.setState({ hasError: false, error: null }) }
\* The result names the branch taken; the children rendered after a reset
\* do not throw.
resetKeysDidUpdate(st, prevProps, props) ==
    IF /\ st.hasError["ErrorBoundary"]
       /\ props.present
       /\ ~arraysEqual(ArrayOrDefault(prevProps), ArrayOrDefault(props))
    THEN [taken |-> "reset",
          st |-> [st EXCEPT !.hasError["ErrorBoundary"] = FALSE,
                            !.error["ErrorBoundary"] = Null,
                            !.view["ErrorBoundary"] =
                                [kind |-> "children", obj |-> Null]]]
    ELSE [taken |-> "kept", st |-> st]

InitResetKeys ==
    /\ cache = [k \in {"ErrorBoundary"} |-> NoEntry]
    /\ promises = <<>>
    /\ fetchCount = [k \in {"ErrorBoundary"} |-> 0]
    /\ hasError = [c \in {"ErrorBoundary"} |-> FALSE]
    /\ error = [c \in {"ErrorBoundary"} |-> Null]
    /\ suspendedOn = [c \in {"ErrorBoundary"} |-> 0]
    /\ view = [c \in {"ErrorBoundary"} |-> [kind |-> "children", obj |-> Null]]
    /\ mountedAt = [c \in {"ErrorBoundary"} |-> 0]
    /\ resetKey = 0
    /\ userId = 1
    /\ shouldFetch = FALSE
    /\ rootError = Null
    /\ reads = [c \in {"ErrorBoundary"} |-> NoRead]
    /\ lastOp = Op("Init", 0, "", "")

\* A child of the clean boundary throws an error while rendering.
ChildThrows(e) ==
    /\ ~hasError["ErrorBoundary"]
    /\ Commit(getDerivedStateFromError(St, "ErrorBoundary", ErrorObj(e)),
              Op("Throw", e, "ErrorBoundary", ""))

\* The parent re-renders the boundary; componentDidUpdate runs with the
\* previous props.
ResetKeysUpdate(prevProps, props) ==
    LET r == resetKeysDidUpdate(St, prevProps, props)
    IN  Commit(r.st, Op("Update", prevProps, props, r.taken))

NextResetKeys ==
    \/ \E e \in {1, 2} : ChildThrows(e)
    \/ \E prevProps \in ResetKeysProps, props \in ResetKeysProps :
          ResetKeysUpdate(prevProps, props)

SpecResetKeys == InitResetKeys /\ [][NextResetKeys]_vars

\* The current resetKeys prop is given and differs from the previous one
\* in length or in some element.
ResetKeysChanged(prevProps, props) ==
    /\ props.present
    /\ \/ Len(ArrayOrDefault(prevProps)) # Len(props.keys)
       \/ \E i \in 1..Len(props.keys) :
             i <= Len(ArrayOrDefault(prevProps))
             /\ ArrayOrDefault(prevProps)[i] # props.keys[i]

\* C33: componentDidUpdate resets a failed boundary to clean when the
\* update changed resetKeys (another length, or some element not equal);
\* when resetKeys is element-wise the same or absent, or the boundary is
\* clean already, the boundary state stays as it was.
C33_ResetKeys ==
    [][lastOp'.op = "Update" =>
          IF hasError["ErrorBoundary"] /\ ResetKeysChanged(lastOp'.p, lastOp'.c)
          THEN /\ lastOp'.outcome = "reset"
               /\ ~hasError'["ErrorBoundary"]
               /\ error'["ErrorBoundary"] = Null
          ELSE /\ lastOp'.outcome = "kept"
               /\ hasError'["ErrorBoundary"] = hasError["ErrorBoundary"]
               /\ error'["ErrorBoundary"] = error["ErrorBoundary"]
               /\ view'["ErrorBoundary"] = view["ErrorBoundary"]]_vars

\* A failed boundary has just been reset by an update that kept the
\* length of resetKeys and changed its second element only.
C33_Witness ==
    /\ lastOp.op = "Update"
    /\ lastOp.outcome = "reset"
    /\ lastOp.p.present /\ lastOp.c.present
    /\ Len(lastOp.p.keys) = 2 /\ Len(lastOp.c.keys) = 2
    /\ lastOp.p.keys[1] = lastOp.c.keys[1]
    /\ lastOp.p.keys[2] # lastOp.c.keys[2]
    /\ ~hasError["ErrorBoundary"]
    /\ error["ErrorBoundary"] = Null

\* C34: every read site is enclosed by an ErrorBoundary, so no rejected
\* operation raises an error that passes every boundary and reaches the
\* root of the tree.
C34_NoErrorReachesRoot ==
    /\ rootError = Null
    /\ \A c \in DOMAIN reads :
          reads[c].outcome = "throw" /\ reads[c].obj.type = "Error"
          => reads[c].caughtBy = "ErrorBoundary"

\* C35: handleUserChange(n) empties the cache and remounts the profile:
\* after the step the only entry is a new operation for n and the profile
\* shows its placeholder; it shows the placeholder for as long as that
\* operation is pending, and any data it displays belongs to the current
\* userId.  The cache never holds more than one entry, and its key is the
\* current userId.
C35_UserChange ==
    /\ []( /\ \A k \in Users :
                 cache[k] # NoEntry
                 => k = userId /\ promises[cache[k]].key = userId
           /\ ( rootError = Null /\ cache[userId] # NoEntry
                /\ promises[cache[userId]].status = "pending" )
              => view["UserProfile"].kind = "placeholder"
           /\ view["UserProfile"].kind = "value"
              => /\ view["UserProfile"].obj = DataObj(cache[userId])
                 /\ promises[view["UserProfile"].obj.id].key = userId )
    /\ [][lastOp'.op = "UserChange" =>
             /\ userId' = lastOp'.p
             /\ cache'[userId'] > Len(promises)
             /\ promises'[cache'[userId']].status = "pending"
             /\ mountedAt'["UserProfile"] = resetKey'
             /\ ~hasError'["UserProfile"]
             /\ view'["UserProfile"].kind = "placeholder"]_vars

\* The profile had shown user 1; after the change to user 2 it shows the
\* placeholder and the cache holds the new operation only.
C35_Witness ==
    /\ lastOp.op = "UserChange"
    /\ userId = 2
    /\ Len(promises) = 2
    /\ promises[1].key = 1 /\ promises[1].status = "fulfilled"
    /\ cache[1] = NoEntry /\ cache[2] = 2
    /\ view["UserProfile"].kind = "placeholder"

----------------------------------------------------------------------------
\* src/lib/retry.ts: withRetry(fn, options).  One call is followed from
\* its start to its settlement.  mountedAt holds the options of the call,
\* resetKey the loop variable attempt, promises the promises fn returned,
\* fetchCount["fn"] the invocations of fn, suspendedOn["withRetry"] the
\* promise awaited, error["withRetry"] lastError, view["withRetry"] where
\* the call stands (awaiting fn, waiting for the timer, resolved,
\* rejected), and reads["onRetry"] the onRetry call of the last step.

\* { maxAttempts = 3, delay = 1000, backoff = 'exponential', onRetry }
RetryOptions ==
    [maxAttempts : 1..MaxAttempts,
     delay : {500, 1000},
     backoff : {"linear", "exponential"}]

\* backoff === 'exponential' ? delay * Math.pow(2, attempt - 1)
\*                           : delay * attempt
waitTime(options, attempt) ==
    IF options.backoff = "exponential"
    THEN options.delay * 2^(attempt - 1)
    ELSE options.delay * attempt

\* try { return await fn() }: fn is invoked and its promise awaited.
withRetryTry(st) ==
    LET s1 == fetcher(st, "fn")
    IN  [s1 EXCEPT !.suspendedOn["withRetry"] = Len(s1.promises),
                   !.view["withRetry"] = [kind |-> "awaiting", obj |-> Null]]

\* for (...; attempt <= maxAttempts; ...) { try ... }  throw lastError
withRetryLoop(st) ==
    IF st.resetKey <= st.mountedAt.maxAttempts
    THEN withRetryTry(st)
    ELSE [st EXCEPT !.view["withRetry"] =
              [kind |-> "rejected", obj |-> st.error["withRetry"]]]

\* return <the value awaited>
withRetryReturn(st, p) ==
    [st EXCEPT !.suspendedOn["withRetry"] = 0,
               !.view["withRetry"] =
                   [kind |-> "resolved", obj |-> st.promises[p].value]]

withRetryCatch_NoBreak(st, p) ==
    LET lastError == st.promises[p].reason
    IN  [st EXCEPT !.suspendedOn["withRetry"] = 0,
                   !.error["withRetry"] = lastError,
                   !.reads["onRetry"] =
                       [outcome |-> "call", promise |-> st.resetKey,
                        obj |-> lastError, caughtBy |-> "none"],
                   !.view["withRetry"] =
                       [kind |-> "waiting",
                        obj |-> [type |-> "Timer",
                                 id |-> waitTime(st.mountedAt, st.resetKey)]]]

\* catch (error) { lastError = error;
\*   if (attempt === maxAttempts) break;        -> throw lastError
\*   onRetry?.(attempt, lastError);
\*   await new Promise(resolve => setTimeout(resolve, waitTime)) }
withRetryCatch(st, p) ==
    LET lastError == st.promises[p].reason
        s1 == [st EXCEPT !.suspendedOn["withRetry"] = 0,
                         !.error["withRetry"] = lastError]
    IN  IF st.resetKey = st.mountedAt.maxAttempts
        THEN [s1 EXCEPT !.view["withRetry"] =
                  [kind |-> "rejected", obj |-> lastError]]
        ELSE [s1 EXCEPT !.reads["onRetry"] =
                            [outcome |-> "call", promise |-> st.resetKey,
                             obj |-> lastError, caughtBy |-> "none"],
                        !.view["withRetry"] =
                            [kind |-> "waiting",
                             obj |-> [type |-> "Timer",
                                      id |-> waitTime(st.mountedAt, st.resetKey)]]]

\* withRetry(fn, options) up to its first await: let attempt = 1, then the
\* first fn().
InitRetrySt(options) ==
    withRetryLoop([cache |-> [k \in {"fn"} |-> NoEntry],
                   promises |-> <<>>,
                   fetchCount |-> [k \in {"fn"} |-> 0],
                   hasError |-> [c \in {"withRetry"} |-> FALSE],
                   error |-> [c \in {"withRetry"} |-> Null],
                   suspendedOn |-> [c \in {"withRetry"} |-> 0],
                   view |-> [c \in {"withRetry"} |-> Blank],
                   mountedAt |-> options,
                   resetKey |-> 1, userId |-> 1, shouldFetch |-> FALSE,
                   rootError |-> Null,
                   reads |-> [c \in {"onRetry"} |-> NoRead]])

InitRetry ==
    \E options \in RetryOptions :
       /\ cache = InitRetrySt(options).cache
       /\ promises = InitRetrySt(options).promises
       /\ fetchCount = InitRetrySt(options).fetchCount
       /\ hasError = InitRetrySt(options).hasError
       /\ error = InitRetrySt(options).error
       /\ suspendedOn = InitRetrySt(options).suspendedOn
       /\ view = InitRetrySt(options).view
       /\ mountedAt = InitRetrySt(options).mountedAt
       /\ resetKey = InitRetrySt(options).resetKey
       /\ userId = InitRetrySt(options).userId
       /\ shouldFetch = InitRetrySt(options).shouldFetch
       /\ rootError = InitRetrySt(options).rootError
       /\ reads = InitRetrySt(options).reads
       /\ lastOp = Op("Init", 0, "", "")

\* The promise fn returned settles and withRetry continues after its
\* await.
FnSettles(outcome) ==
    /\ view["withRetry"].kind = "awaiting"
    /\ LET p == suspendedOn["withRetry"]
           s1 == SettlePromise(St, p, outcome)
       IN  Commit(IF outcome = "fulfilled"
                  THEN withRetryReturn(s1, p) ELSE withRetryCatch(s1, p),
                  Op("Settle", p, "fn", outcome))

\* The timer of the wait fires: attempt++ and the loop goes on.
RetryTimerFires ==
    /\ view["withRetry"].kind = "waiting"
    /\ Commit(withRetryLoop([St EXCEPT !.resetKey = @ + 1]),
              Op("Timer", 0, "withRetry", ""))

NextRetry ==
    \/ \E outcome \in {"fulfilled", "rejected"} : FnSettles(outcome)
    \/ RetryTimerFires

\* Timers fire, and every promise fn returns settles.
SpecRetry ==
    InitRetry /\ [][NextRetry]_vars /\ WF_vars(NextRetry)

\* The attempts of the call so far: Attempt(i) is the promise the i-th
\* invocation of fn returned.
RetryDone == view["withRetry"].kind \in {"resolved", "rejected"}

RetryBounded ==
    /\ fetchCount["fn"] = Len(promises)
    /\ fetchCount["fn"] = resetKey
    /\ fetchCount["fn"] <= mountedAt.maxAttempts
    /\ \A i \in 1..(Len(promises) - 1) : promises[i].status = "rejected"
    /\ view["withRetry"].kind = "resolved" =>
          /\ promises[Len(promises)].status = "fulfilled"
          /\ view["withRetry"].obj = promises[Len(promises)].value
    /\ view["withRetry"].kind = "rejected" =>
          /\ Len(promises) = mountedAt.maxAttempts
          /\ promises[Len(promises)].status = "rejected"
          /\ view["withRetry"].obj = promises[mountedAt.maxAttempts].reason
    /\ RetryDone => \A i \in 1..Len(promises) : promises[i].status # "pending"

RetryOnRetry ==
    IF /\ lastOp'.op = "Settle"
       /\ lastOp'.outcome = "rejected"
       /\ resetKey < mountedAt.maxAttempts
    THEN /\ reads'["onRetry"].outcome = "call"
         /\ reads'["onRetry"].promise = resetKey
         /\ reads'["onRetry"].obj = promises'[resetKey].reason
    ELSE reads'["onRetry"] = NoRead

\* C37: withRetry(fn, {maxAttempts: n}) with n >= 1 invokes fn at most n
\* times, one after the other, and settles: it resolves with the value of
\* the first attempt that succeeds and does not invoke fn again; when all
\* n attempts reject it rejects with the error of the n-th; onRetry is
\* called once after each failed attempt but the last, with the attempt's
\* 1-based number and its error, and at no other time.
C37_WithRetry ==
    /\ []RetryBounded
    /\ [][RetryOnRetry]_vars
    /\ <>RetryDone

C37_Witness ==
    /\ mountedAt.maxAttempts = 3
    /\ view["withRetry"].kind = "rejected"
    /\ fetchCount["fn"] = 3

====
